---- MODULE Spec2Model ----
(***************************************************************************)
(* A model of src/main.py, the one-shot system security monitor.           *)
(*                                                                         *)
(* main() prints a title and then runs five passes inside one try block;   *)
(* every pass prints a banner and the lines it derives from what the       *)
(* inventory (platform, psutil) hands it.  Standard output is the sequence *)
(* out of printed lines, each line a record whose field k names the print  *)
(* statement it comes from and whose other fields are the values that      *)
(* statement formats.  What the inventory returns is the input of          *)
(* each pass and is drawn afresh by every pass, as every pass queries      *)
(* psutil again.                                                           *)
(*                                                                         *)
(* Text is a tuple of one-character strings, so that lower(), the `in`     *)
(* substring test and the ordering of sorted() are computed, not assumed.  *)
(* A byte count divided by 1_000_000 is carried exactly, as whole MB and    *)
(* millionths of a MB; the rounding of the binary floating point quotient  *)
(* and sum is not modelled.                                                *)
(* A process's username, cpu_percent and memory_percent are only passed    *)
(* through to the print statements and are left out of the records.        *)
(***************************************************************************)
EXTENDS Integers, Sequences, FiniteSets, TLC

VARIABLES
    pc,                      \* the statement of main() that runs next
    out,                     \* standard output: the lines printed so far
    exit,                    \* "running", "returned" (main returned), "raised"
    e,                       \* the exception bound by main's except clause
    injected,                \* the exception an inventory enumeration raised
    connections,             \* monitor_network_connections' connections
    net_connections,         \* what check_listening_ports iterates over
    connection_data,         \* monitor_network_connections' list
    listening,               \* check_listening_ports' list
    procs,                   \* what psutil.process_iter yielded
    suspicious_processes,    \* check_suspicious_processes' lists
    high_network_processes

vars == <<pc, out, exit, e, injected, connections, net_connections,
          connection_data, listening, procs, suspicious_processes,
          high_network_processes>>

-----------------------------------------------------------------------------
(* Bounds of the explored inputs.                                          *)

\* longest inventory list of a pass in the run of the whole of main()
MaxMain == 2
\* longest connection list of the two connection passes run one after the other
MaxNet == 2
\* longest connection list of the Active Connections pass on its own
MaxConns == 7
\* longest connection list of the Listening Ports pass on its own
MaxListen == 4
\* longest process list of the Process Analysis pass
MaxProcs == 3
\* longest process list of the Process Analysis pass, high usage processes only
MaxTop == 11

-----------------------------------------------------------------------------
(* Exceptions.  NoExc stands for "nothing was raised".                     *)

NoExc == "none"

\* the base class of an exception class (psutil's and Python's hierarchy)
Parent(c) ==
    CASE c = "ZombieProcess" -> "NoSuchProcess"
      [] c = "NoSuchProcess" -> "psutil.Error"
      [] c = "AccessDenied" -> "psutil.Error"
      [] c = "psutil.Error" -> "Exception"
      [] c = "AttributeError" -> "Exception"
      [] c = "OSError" -> "Exception"
      [] OTHER -> "BaseException"

RECURSIVE IsInstance(_, _)
IsInstance(c, cls) ==
    \/ c = cls
    \/ c # "BaseException" /\ IsInstance(Parent(c), cls)

\* an except clause naming the classes `classes` handles exception x
Catches(classes, x) == \E cls \in classes : IsInstance(x, cls)

\* as if the clause read: except psutil.NoSuchProcess
LookupExcept_NoSuchProcessOnly == {"NoSuchProcess"}

\* except (psutil.NoSuchProcess, psutil.AccessDenied)
LookupExcept == {"NoSuchProcess", "AccessDenied"}

\* as if the clause read: except psutil.AccessDenied
IoExcept_DeniedOnly == {"AccessDenied"}

\* except (psutil.AccessDenied, AttributeError)
IoExcept == {"AccessDenied", "AttributeError"}

\* as if the clause read: except psutil.Error as e
MainExcept_PsutilOnly == {"psutil.Error"}

\* except Exception as e
MainExcept == {"Exception"}

\* what an enumeration of the inventory may raise
FaultKinds == {"OSError", "AccessDenied"}

-----------------------------------------------------------------------------
(* Text.                                                                   *)

\* the characters of the names used, in code point order
Alphabet ==
    <<".",
      "A", "B", "C", "D", "E", "F", "G", "H", "I", "J", "K", "L", "M",
      "N", "O", "P", "Q", "R", "S", "T", "U", "V", "W", "X", "Y", "Z",
      "a", "b", "c", "d", "e", "f", "g", "h", "i", "j", "k", "l", "m",
      "n", "o", "p", "q", "r", "s", "t", "u", "v", "w", "x", "y", "z">>

\* ord(c), counted from the first character of Alphabet
OrdOf == [c \in {Alphabet[i] : i \in 1..Len(Alphabet)} |->
             CHOOSE i \in 1..Len(Alphabet) : Alphabet[i] = c]

Ord(c) == OrdOf[c]

\* an upper case letter becomes the lower case one, 26 places further on
LowerChar(c) == IF Ord(c) \in 2..27 THEN Alphabet[Ord(c) + 26] ELSE c

\* str.lower()
lower(s) == [i \in 1..Len(s) |-> LowerChar(s[i])]

\* sub in s
Contains(s, sub) ==
    \E i \in 0..(Len(s) - Len(sub)) : SubSeq(s, i + 1, i + Len(sub)) = sub

\* the code points of a string
Codes(s) == [i \in 1..Len(s) |-> Ord(s[i])]

\* the value of an attribute psutil could not read (as_dict's ad_value)
None == <<"None">>

Unknown == <<"U", "n", "k", "n", "o", "w", "n">>
chrome == <<"c", "h", "r", "o", "m", "e">>
ssh == <<"s", "s", "h">>
CryptoMiner == <<"C", "r", "y", "p", "t", "o", "M", "i", "n", "e", "r", ".", "e", "x", "e">>
RAT == <<"R", "A", "T">>

suspicious_keywords ==
    << <<"m", "i", "n", "e", "r">>,
       <<"c", "r", "y", "p", "t", "o">>,
       <<"h", "a", "c", "k">>,
       <<"k", "e", "y", "l", "o", "g">>,
       <<"t", "r", "o", "j", "a", "n">>,
       <<"r", "a", "t">>,
       <<"b", "a", "c", "k", "d", "o", "o", "r">> >>

-----------------------------------------------------------------------------
(* Lists.                                                                  *)

\* seq[:n]
Take(seq, n) == SubSeq(seq, 1, IF n < Len(seq) THEN n ELSE Len(seq))

RECURSIVE Concat(_)
Concat(ss) == IF ss = <<>> THEN <<>> ELSE Head(ss) \o Concat(Tail(ss))

\* a < b for two tuples of integers, as Python compares tuples and, code
\* point by code point, strings
RECURSIVE KeyLess(_, _)
KeyLess(a, b) ==
    IF b = <<>> THEN FALSE
    ELSE IF a = <<>> THEN TRUE
    ELSE IF a[1] # b[1] THEN a[1] < b[1]
    ELSE KeyLess(Tail(a), Tail(b))

\* sorted(items, key=..., reverse=...), keys[i] being the key of items[i]: a
\* stable sort; each item is inserted after every item placed so far that
\* it does not come strictly before, so items of equal keys keep the order
\* they had in items, also when the sort is reversed
Sorted(items, keys, reverse) ==
    LET Before(i, j) ==
            IF reverse THEN KeyLess(keys[j], keys[i]) ELSE KeyLess(keys[i], keys[j])
        RECURSIVE Insert(_, _)
        Insert(i, t) ==
            IF t = <<>> THEN <<i>>
            ELSE IF Before(i, Head(t)) THEN <<i>> \o t
            ELSE <<Head(t)>> \o Insert(i, Tail(t))
        RECURSIVE Sort(_)
        Sort(n) == IF n = 0 THEN <<>> ELSE Insert(n, Sort(n - 1))
        order == Sort(Len(items))
    IN  [p \in 1..Len(items) |-> items[order[p]]]

\* the enumeration gives the i-th item its identity: the remote endpoint of an
\* established connection, the bind address of a listening one, the pid of a
\* process
Enumerate(s) == [i \in 1..Len(s) |-> [s[i] EXCEPT !.id = i]]

-----------------------------------------------------------------------------
(* Printed lines.                                                          *)

Banner == [k |-> "banner"]
Title(t) == [k |-> "title", title |-> t]
Blank == [k |-> "blank"]
Header(t) == <<Banner, Title(t), Banner>>

ErrorLine(x) == [k |-> "error", exc |-> x]
HintLine == [k |-> "hint"]

-----------------------------------------------------------------------------
(* get_system_info and get_network_stats.                                  *)

InfoLabels == <<"System", "Machine", "Processor", "Scan Time">>

\* The banner is printed first; each of the four lines calls platform or
\* datetime inside its print, so a call that raises at line `at` leaves the
\* lines before it printed.
get_system_info(fault, at) ==
    LET info == [i \in 1..Len(InfoLabels) |-> [k |-> "info", label |-> InfoLabels[i]]]
    IN  IF fault # NoExc
        THEN [lines |-> Header("SYSTEM INFORMATION") \o SubSeq(info, 1, at - 1),
              exc |-> fault]
        ELSE [lines |-> Header("SYSTEM INFORMATION") \o info \o <<Blank>>,
              exc |-> NoExc]

StatLabels ==
    <<"Bytes Sent", "Bytes Received", "Packets Sent", "Packets Recv",
      "Errors In", "Errors Out">>

\* psutil.net_io_counters() is called after the banner and before any line
get_network_stats(fault) ==
    LET stats == [i \in 1..Len(StatLabels) |-> [k |-> "stat", label |-> StatLabels[i]]]
    IN  IF fault # NoExc
        THEN [lines |-> Header("NETWORK STATISTICS"), exc |-> fault]
        ELSE [lines |-> Header("NETWORK STATISTICS") \o stats \o <<Blank>>,
              exc |-> NoExc]

-----------------------------------------------------------------------------
(* Connections.  A connection of psutil.net_connections: pid (0 for None),  *)
(* what psutil.Process(pid).name() does (lookup is the exception it raises, *)
(* pname the name it returns), status, the local port lport (0 for an empty *)
(* laddr) and id, its place in the enumeration, which stands for its remote *)
(* endpoint.                                                                *)

Conn(pid, lookup, pname, status, lport) ==
    [id |-> 0, pid |-> pid, lookup |-> lookup, pname |-> pname,
     status |-> status, lport |-> lport]

\* process = psutil.Process(conn.pid) if conn.pid else None
\* process_name = process.name() if process else "Unknown"
ProcessName(conn) ==
    IF conn.pid = 0 THEN [exc |-> NoExc, name |-> Unknown]
    ELSE IF conn.lookup # NoExc THEN [exc |-> conn.lookup, name |-> None]
    ELSE [exc |-> NoExc, name |-> conn.pname]

\* f"{conn.laddr.ip}:{conn.laddr.port}" if conn.laddr else "N/A"
FormatAddr(port) == IF port = 0 THEN <<"N/A">> ELSE <<"ip", port>>

\* the loop of monitor_network_connections from connection i on
RECURSIVE ConnectionLoop(_, _, _)
ConnectionLoop(conns, i, acc) ==
    IF i > Len(conns) THEN [exc |-> NoExc, data |-> acc]
    ELSE IF conns[i].status # "ESTABLISHED" THEN ConnectionLoop(conns, i + 1, acc)
    ELSE LET conn == conns[i]
             p == ProcessName(conn)
         IN  IF p.exc = NoExc
             THEN ConnectionLoop(conns, i + 1,
                      Append(acc, [process |-> p.name, pid |-> conn.pid,
                                   local |-> FormatAddr(conn.lport),
                                   remote |-> conn.id, status |-> conn.status]))
             ELSE IF Catches(LookupExcept, p.exc)
             THEN ConnectionLoop(conns, i + 1, acc)
             ELSE [exc |-> p.exc, data |-> acc]

\* the keys of process_connections, in the order of their first connection
RECURSIVE GroupKeys(_)
GroupKeys(data) ==
    IF data = <<>> THEN <<>>
    ELSE LET rest == GroupKeys(SubSeq(data, 1, Len(data) - 1))
             name == data[Len(data)].process
         IN  IF \E i \in 1..Len(rest) : rest[i] = name THEN rest
             ELSE Append(rest, name)

\* process_connections[name]
Group(data, name) == SelectSeq(data, LAMBDA c : c.process = name)

\* as if the slice and the comparison read 6
ShownPerGroup_Six == 5 + 1

\* conns[:5], "Show first 5 connections per process"
ShownPerGroup == 5

\* what is printed for one process
GroupLines(name, conns) ==
    LET shown == Take(conns, ShownPerGroup)
    IN  <<[k |-> "group", process |-> name, pid |-> conns[1].pid]>>
        \o [i \in 1..Len(shown) |->
               [k |-> "conn", local |-> shown[i].local, remote |-> shown[i].remote]]
        \o (IF Len(conns) > ShownPerGroup
            THEN <<[k |-> "more", n |-> Len(conns) - ShownPerGroup]>>
            ELSE <<>>)

\* Total active connections: {len(connection_data)}
ConnectionTotal(data) == Len(data)

monitor_network_connections(conns, fault) ==
    LET head == Header("ACTIVE NETWORK CONNECTIONS")
        loop == ConnectionLoop(conns, 1, <<>>)
        names == GroupKeys(loop.data)
        keys == Sorted(names, [i \in 1..Len(names) |-> Codes(names[i])], FALSE)
    IN  IF fault # NoExc
        THEN [lines |-> head, exc |-> fault, connection_data |-> <<>>]
        ELSE IF loop.exc # NoExc
        THEN [lines |-> head, exc |-> loop.exc, connection_data |-> loop.data]
        ELSE [lines |-> head
                        \o Concat([i \in 1..Len(keys) |->
                                      GroupLines(keys[i], Group(loop.data, keys[i]))])
                        \o <<[k |-> "total", n |-> ConnectionTotal(loop.data)], Blank>>,
              exc |-> NoExc,
              connection_data |-> loop.data]

-----------------------------------------------------------------------------
(* Listening ports.                                                        *)

\* the loop of check_listening_ports from connection i on; conn.laddr.port of
\* an empty laddr raises AttributeError
RECURSIVE ListeningLoop(_, _, _)
ListeningLoop(conns, i, acc) ==
    IF i > Len(conns) THEN [exc |-> NoExc, data |-> acc]
    ELSE IF conns[i].status # "LISTEN" THEN ListeningLoop(conns, i + 1, acc)
    ELSE LET conn == conns[i]
             p == ProcessName(conn)
             x == IF p.exc # NoExc THEN p.exc
                  ELSE IF conn.lport = 0 THEN "AttributeError"
                  ELSE NoExc
         IN  IF x = NoExc
             THEN ListeningLoop(conns, i + 1,
                      Append(acc, [process |-> p.name, pid |-> conn.pid,
                                   port |-> conn.lport, address |-> conn.id]))
             ELSE IF Catches(LookupExcept, x)
             THEN ListeningLoop(conns, i + 1, acc)
             ELSE [exc |-> x, data |-> acc]

\* as if the call read: sorted(listening, key=..., reverse=True)
SortByPort_Descending(items) ==
    Sorted(items, [i \in 1..Len(items) |-> <<items[i].port>>], TRUE)

\* sorted(listening, key=lambda x: x['port'])
SortByPort(items) ==
    Sorted(items, [i \in 1..Len(items) |-> <<items[i].port>>], FALSE)

\* Total listening ports: {len(listening)}
ListeningTotal(items) == Len(items)

check_listening_ports(conns, fault) ==
    LET head == Header("LISTENING PORTS")
        loop == ListeningLoop(conns, 1, <<>>)
        items == SortByPort(loop.data)
    IN  IF fault # NoExc
        THEN [lines |-> head, exc |-> fault, listening |-> <<>>]
        ELSE IF loop.exc # NoExc
        THEN [lines |-> head, exc |-> loop.exc, listening |-> loop.data]
        ELSE [lines |-> head
                        \o [i \in 1..Len(items) |->
                               [k |-> "port", port |-> items[i].port,
                                process |-> items[i].process, pid |-> items[i].pid,
                                address |-> items[i].address]]
                        \o <<[k |-> "total", n |-> ListeningTotal(loop.data)], Blank>>,
              exc |-> NoExc,
              listening |-> loop.data]

-----------------------------------------------------------------------------
(* Processes.  A process of psutil.process_iter: id is its pid (its place   *)
(* in the enumeration), name is info['name'] (None when psutil was denied   *)
(* access to it), io is the exception io_counters() raises, read_bytes and  *)
(* write_bytes are what it returns.                                         *)

Proc(name, io, read_bytes, write_bytes) ==
    [id |-> 0, name |-> name, io |-> io,
     read_bytes |-> read_bytes, write_bytes |-> write_bytes]

\* as if only the first keyword were tried
AnyKeyword_FirstOnly(proc_name_lower) ==
    Contains(proc_name_lower, suspicious_keywords[1])

\* any(keyword in proc_name_lower for keyword in suspicious_keywords)
AnyKeyword(proc_name_lower) ==
    \E i \in 1..Len(suspicious_keywords) :
        Contains(proc_name_lower, suspicious_keywords[i])

\* the 10_000_000 of the comparison with read_bytes and write_bytes
HighBytes == 10000000

\* as if the comparisons read >=
IsHighUsage_AtLeast(read_bytes, write_bytes) ==
    read_bytes >= HighBytes \/ write_bytes >= HighBytes

\* net_io.read_bytes > 10_000_000 or net_io.write_bytes > 10_000_000
IsHighUsage(read_bytes, write_bytes) ==
    read_bytes > HighBytes \/ write_bytes > HighBytes

\* bytes / 1_000_000
MB(bytes) == [whole |-> bytes \div 1000000, micro |-> bytes % 1000000]

\* x['read_mb'] + x['write_mb'], as <<whole MB, millionths>>
UsageKey(x) ==
    LET micro == x.read_mb.micro + x.write_mb.micro
    IN  <<x.read_mb.whole + x.write_mb.whole + micro \div 1000000,
          micro % 1000000>>

\* as if the call had no reverse=True
SortByUsage_Ascending(items) ==
    Sorted(items, [i \in 1..Len(items) |-> UsageKey(items[i])], FALSE)

\* sorted(high_network_processes, key=..., reverse=True): the larger key
\* first, equal keys in their original order
SortByUsage(items) ==
    Sorted(items, [i \in 1..Len(items) |-> UsageKey(items[i])], TRUE)

\* [:10]
TopCount == 10

\* the body of the outer try for one process (lines 81-99): the lists after
\* it, and the exception that leaves it
ProcessBody(proc, susp, high) ==
    IF proc.name = None
    THEN [exc |-> "AttributeError", susp |-> susp, high |-> high]
    ELSE LET susp1 == IF AnyKeyword(lower(proc.name))
                      THEN Append(susp, [name |-> proc.name, pid |-> proc.id])
                      ELSE susp
         IN  IF proc.io # NoExc
             THEN [exc |-> IF Catches(IoExcept, proc.io) THEN NoExc ELSE proc.io,
                   susp |-> susp1, high |-> high]
             ELSE IF IsHighUsage(proc.read_bytes, proc.write_bytes)
             THEN [exc |-> NoExc, susp |-> susp1,
                   high |-> Append(high, [name |-> proc.name, pid |-> proc.id,
                                          read_mb |-> MB(proc.read_bytes),
                                          write_mb |-> MB(proc.write_bytes)])]
             ELSE [exc |-> NoExc, susp |-> susp1, high |-> high]

\* the loop of check_suspicious_processes from process i on
RECURSIVE ProcessLoop(_, _, _, _)
ProcessLoop(ps, i, susp, high) ==
    IF i > Len(ps) THEN [exc |-> NoExc, susp |-> susp, high |-> high]
    ELSE LET b == ProcessBody(ps[i], susp, high)
         IN  IF b.exc = NoExc \/ Catches(LookupExcept, b.exc)
             THEN ProcessLoop(ps, i + 1, b.susp, b.high)
             ELSE b

\* lines 104-109
SuspiciousLines(susp) ==
    IF susp # <<>>
    THEN <<[k |-> "warning"]>>
         \o [i \in 1..Len(susp) |->
                [k |-> "suspicious", name |-> susp[i].name, pid |-> susp[i].pid]]
    ELSE <<[k |-> "clear"]>>

\* lines 111-115
HighUsageLines(high) ==
    LET top == Take(SortByUsage(high), TopCount)
    IN  IF high # <<>>
        THEN <<[k |-> "usage header"]>>
             \o Concat([i \in 1..Len(top) |->
                    <<[k |-> "high", name |-> top[i].name, pid |-> top[i].pid],
                      [k |-> "usage", read_mb |-> top[i].read_mb,
                       write_mb |-> top[i].write_mb]>>])
        ELSE <<>>

check_suspicious_processes(ps, fault) ==
    LET head == Header("RUNNING PROCESSES ANALYSIS")
        loop == ProcessLoop(ps, 1, <<>>, <<>>)
    IN  IF fault # NoExc
        THEN [lines |-> head, exc |-> fault, susp |-> <<>>, high |-> <<>>]
        ELSE IF loop.exc # NoExc
        THEN [lines |-> head, exc |-> loop.exc, susp |-> loop.susp, high |-> loop.high]
        ELSE [lines |-> head \o SuspiciousLines(loop.susp)
                        \o HighUsageLines(loop.high) \o <<Blank>>,
              exc |-> NoExc, susp |-> loop.susp, high |-> loop.high]

-----------------------------------------------------------------------------
(* main().                                                                 *)

\* as if check_listening_ports() were called before
\* monitor_network_connections()
NextPass_PortsFirst(p) ==
    CASE p = "sysinfo" -> "netstats"
      [] p = "netstats" -> "ports"
      [] p = "ports" -> "connections"
      [] p = "connections" -> "processes"
      [] p = "processes" -> "recommendations"

\* the statement of the try block that follows statement p
NextPass(p) ==
    CASE p = "sysinfo" -> "netstats"
      [] p = "netstats" -> "connections"
      [] p = "connections" -> "ports"
      [] p = "ports" -> "processes"
      [] p = "processes" -> "recommendations"

\* the print statements of the try block once the five passes are over
RecommendationLines ==
    Header("RECOMMENDATIONS:")
    \o [i \in 1..6 |-> [k |-> "advice", n |-> i]]
    \o <<[k |-> "note"], [k |-> "note"], Banner>>

\* A call of the try block that returned r.  Nothing raised: the next
\* statement runs.  Otherwise the except clause prints the error and the
\* hint, and main returns; an exception the clause does not name leaves main.
Try(r, next) ==
    LET caught == r.exc # NoExc /\ Catches(MainExcept, r.exc)
    IN  /\ out' = out \o r.lines
                  \o (IF caught THEN <<ErrorLine(r.exc), HintLine>> ELSE <<>>)
        /\ pc' = IF r.exc = NoExc THEN next ELSE "done"
        /\ e' = IF caught THEN r.exc ELSE e
        /\ exit' = IF r.exc = NoExc THEN exit
                   ELSE IF caught THEN "returned" ELSE "raised"

Faults == {NoExc} \cup FaultKinds

Init ==
    /\ pc = "main"
    /\ out = <<>>
    /\ exit = "running"
    /\ e = NoExc
    /\ injected = NoExc
    /\ connections = <<>>
    /\ net_connections = <<>>
    /\ connection_data = <<>>
    /\ listening = <<>>
    /\ procs = <<>>
    /\ suspicious_processes = <<>>
    /\ high_network_processes = <<>>

\* print("\n🔍 SYSTEM SECURITY MONITOR\n")
Main ==
    /\ pc = "main"
    /\ out' = Append(out, [k |-> "monitor"])
    /\ pc' = "sysinfo"
    /\ UNCHANGED <<exit, e, injected, connections, net_connections, connection_data, listening,
                   procs, suspicious_processes, high_network_processes>>

GetSystemInfo ==
    /\ pc = "sysinfo"
    /\ \E f \in Faults, at \in 1..Len(InfoLabels) :
           /\ f = NoExc => at = 1
           /\ \E r \in {get_system_info(f, at)} : Try(r, NextPass("sysinfo"))
           /\ injected' = f
    /\ UNCHANGED <<connections, net_connections, connection_data, listening,
                   procs, suspicious_processes, high_network_processes>>

GetNetworkStats ==
    /\ pc = "netstats"
    /\ \E f \in Faults :
           /\ \E r \in {get_network_stats(f)} : Try(r, NextPass("netstats"))
           /\ injected' = f
    /\ UNCHANGED <<connections, net_connections, connection_data, listening,
                   procs, suspicious_processes, high_network_processes>>

\* Inputs: the lists psutil.net_connections may return
MonitorNetworkConnections(Inputs) ==
    /\ pc = "connections"
    /\ \E f \in Faults : \E cs \in (IF f = NoExc THEN Inputs ELSE {<<>>}) :
           /\ \E r \in {monitor_network_connections(cs, f)} :
                  /\ Try(r, NextPass("connections"))
                  /\ connection_data' = r.connection_data
                  /\ connections' = IF f = NoExc THEN cs ELSE connections
           /\ injected' = f
    /\ UNCHANGED <<net_connections, listening, procs, suspicious_processes,
                   high_network_processes>>

CheckListeningPorts(Inputs) ==
    /\ pc = "ports"
    /\ \E f \in Faults : \E cs \in (IF f = NoExc THEN Inputs ELSE {<<>>}) :
           /\ \E r \in {check_listening_ports(cs, f)} :
                  /\ Try(r, NextPass("ports"))
                  /\ listening' = r.listening
                  /\ net_connections' = IF f = NoExc THEN cs ELSE net_connections
           /\ injected' = f
    /\ UNCHANGED <<connections, connection_data, procs, suspicious_processes,
                   high_network_processes>>

\* Inputs: the lists of processes psutil.process_iter may yield
CheckSuspiciousProcesses(Inputs) ==
    /\ pc = "processes"
    /\ \E f \in Faults : \E ps \in (IF f = NoExc THEN Inputs ELSE {<<>>}) :
           /\ \E r \in {check_suspicious_processes(ps, f)} :
                  /\ Try(r, NextPass("processes"))
                  /\ suspicious_processes' = r.susp
                  /\ high_network_processes' = r.high
                  /\ procs' = ps
           /\ injected' = f
    /\ UNCHANGED <<connections, net_connections, connection_data, listening>>

Recommendations ==
    /\ pc = "recommendations"
    /\ out' = out \o RecommendationLines
    /\ pc' = "done"
    /\ exit' = "returned"
    /\ UNCHANGED <<e, injected, connections, net_connections, connection_data,
                   listening, procs, suspicious_processes, high_network_processes>>

-----------------------------------------------------------------------------
(* The inventories explored.                                               *)

\* the enumerations of at most n items of the kinds K
Lists(K, n) == {Enumerate(s) : s \in UNION {[1..m -> K] : m \in 0..n}}

MainConnKinds ==
    {Conn(1, NoExc, chrome, "ESTABLISHED", 443),
     Conn(4, "AccessDenied", None, "ESTABLISHED", 443)}

MainListenKinds ==
    {Conn(2, NoExc, ssh, "LISTEN", 22),
     Conn(3, "NoSuchProcess", None, "LISTEN", 443)}

MainProcKinds ==
    {Proc(chrome, NoExc, 10000000, 0),
     Proc(chrome, NoExc, 10000001, 0),
     Proc(CryptoMiner, "AccessDenied", 0, 0),
     Proc(None, NoExc, 0, 0)}

NetConnKinds ==
    {Conn(0, NoExc, None, "ESTABLISHED", 0),
     Conn(3, "NoSuchProcess", None, "ESTABLISHED", 443),
     Conn(4, "AccessDenied", None, "ESTABLISHED", 443),
     Conn(5, "ZombieProcess", None, "ESTABLISHED", 443),
     Conn(1, NoExc, chrome, "LISTEN", 8080)}

NetListenKinds ==
    {Conn(2, NoExc, ssh, "LISTEN", 22),
     Conn(3, "NoSuchProcess", None, "LISTEN", 443),
     Conn(4, "AccessDenied", None, "LISTEN", 8080),
     Conn(5, "ZombieProcess", None, "LISTEN", 22),
     Conn(2, NoExc, ssh, "ESTABLISHED", 22)}

ConnKinds ==
    {Conn(1, NoExc, chrome, "ESTABLISHED", 443),
     Conn(2, NoExc, ssh, "ESTABLISHED", 22),
     Conn(4, "AccessDenied", None, "ESTABLISHED", 443),
     Conn(1, NoExc, chrome, "LISTEN", 8080)}

ListenKinds ==
    {Conn(1, NoExc, chrome, "LISTEN", 8080),
     Conn(1, NoExc, chrome, "LISTEN", 443),
     Conn(2, NoExc, ssh, "LISTEN", 22),
     Conn(2, NoExc, ssh, "LISTEN", 443),
     Conn(3, "NoSuchProcess", None, "LISTEN", 22),
     Conn(4, "AccessDenied", None, "LISTEN", 8080),
     Conn(0, NoExc, None, "LISTEN", 443),
     Conn(1, NoExc, chrome, "ESTABLISHED", 22)}

ProcKinds ==
    {Proc(chrome, NoExc, 10000000, 0),
     Proc(chrome, NoExc, 10000001, 0),
     Proc(chrome, NoExc, 0, 10000001),
     Proc(chrome, NoExc, 10000000, 10000000),
     Proc(CryptoMiner, NoExc, 0, 0),
     Proc(RAT, NoExc, 20000000, 0),
     Proc(chrome, "AccessDenied", 0, 0),
     Proc(CryptoMiner, "AccessDenied", 0, 0),
     Proc(chrome, "AttributeError", 0, 0),
     Proc(RAT, "AttributeError", 0, 0),
     Proc(CryptoMiner, "NoSuchProcess", 0, 0),
     Proc(None, NoExc, 0, 0)}

TopKinds ==
    {Proc(chrome, NoExc, 10000001, 0),
     Proc(ssh, NoExc, 10600000, 9400000)}

-----------------------------------------------------------------------------
(* Specifications.                                                         *)

\* main() from its first statement to its return
Next ==
    \/ Main
    \/ GetSystemInfo
    \/ GetNetworkStats
    \/ MonitorNetworkConnections(Lists(MainConnKinds, MaxMain))
    \/ CheckListeningPorts(Lists(MainListenKinds, MaxMain))
    \/ CheckSuspiciousProcesses(Lists(MainProcKinds, MaxMain))
    \/ Recommendations

Spec == Init /\ [][Next]_vars

\* main() up to the end of the two connection passes
NextNet ==
    \/ Main
    \/ GetSystemInfo
    \/ GetNetworkStats
    \/ MonitorNetworkConnections(Lists(NetConnKinds, MaxNet))
    \/ CheckListeningPorts(Lists(NetListenKinds, MaxNet))

SpecNet == Init /\ [][NextNet]_vars

\* main() up to the end of the Active Connections pass
NextConnections ==
    \/ Main
    \/ GetSystemInfo
    \/ GetNetworkStats
    \/ MonitorNetworkConnections(Lists(ConnKinds, MaxConns))

SpecConnections == Init /\ [][NextConnections]_vars

\* main() up to the end of the Listening Ports pass, on a host with no
\* connection while the Active Connections pass runs
NextPorts ==
    \/ Main
    \/ GetSystemInfo
    \/ GetNetworkStats
    \/ MonitorNetworkConnections({<<>>})
    \/ CheckListeningPorts(Lists(ListenKinds, MaxListen))

SpecPorts == Init /\ [][NextPorts]_vars

\* main() up to the end of the Process Analysis pass, on a host with no
\* connection while the connection passes run
NextProcesses ==
    \/ Main
    \/ GetSystemInfo
    \/ GetNetworkStats
    \/ MonitorNetworkConnections({<<>>})
    \/ CheckListeningPorts({<<>>})
    \/ CheckSuspiciousProcesses(Lists(ProcKinds, MaxProcs))

SpecProcesses == Init /\ [][NextProcesses]_vars

\* the same, also on the hosts with up to MaxTop processes, all of them of
\* high usage
NextTop ==
    \/ Main
    \/ GetSystemInfo
    \/ GetNetworkStats
    \/ MonitorNetworkConnections({<<>>})
    \/ CheckListeningPorts({<<>>})
    \/ CheckSuspiciousProcesses(Lists(TopKinds, MaxTop) \cup Lists(ProcKinds, MaxProcs))

SpecTop == Init /\ [][NextTop]_vars

-----------------------------------------------------------------------------
(* What the report is expected to look like, read off standard output.     *)

\* the lines printed by the print statement `kind`
LinesOf(kind) == SelectSeq(out, LAMBDA l : l.k = kind)

\* the titles of the sections begun so far
Titles == [i \in 1..Len(LinesOf("title")) |-> LinesOf("title")[i].title]

SectionOrder ==
    <<"SYSTEM INFORMATION", "NETWORK STATISTICS", "ACTIVE NETWORK CONNECTIONS",
      "LISTENING PORTS", "RUNNING PROCESSES ANALYSIS", "RECOMMENDATIONS:">>

\* the place of a pass among the sections
SectionOf(p) ==
    CASE p = "sysinfo" -> 1
      [] p = "netstats" -> 2
      [] p = "connections" -> 3
      [] p = "ports" -> 4
      [] p = "processes" -> 5
      [] OTHER -> 6

\* C1: when a pass raises an unexpected fault, the pass it was raised in is
\* the last section begun (no later pass starts, no Recommendations), the
\* output ends with the one error line, naming the fault, followed by the
\* hint, and main() has returned normally.
C1_FaultEndsReport ==
    [][(injected = NoExc /\ injected' # NoExc) =>
          /\ pc' = "done"
          /\ exit' = "returned"
          /\ e' = injected'
          /\ Titles' = SubSeq(SectionOrder, 1, SectionOf(pc))
          /\ Len(LinesOf("error")') = 1
          /\ Len(LinesOf("hint")') = 1
          /\ Len(out') >= 2
          /\ out'[Len(out') - 1].k = "error"
          /\ out'[Len(out') - 1].exc = injected'
          /\ out'[Len(out')].k = "hint"]_vars

\* a fault raised while the Active Connections pass enumerates
C1_Witness ==
    /\ injected # NoExc
    /\ pc = "done"
    /\ Titles = SubSeq(SectionOrder, 1, 3)
    /\ out[Len(out)].k = "hint"

\* C2 (as claimed): a process whose attributes cannot be read is skipped
\* and nothing reaches main's handler, so a run in which no enumeration
\* raised ends with the Recommendations printed.
C2_LookupFailureIsSkipped ==
    (pc = "done" /\ injected = NoExc) =>
        /\ e = NoExc
        /\ Titles = SectionOrder

\* C5: the sections begin in the fixed order, each at most once; a section
\* begins (banner, title, banner) right after the title of the monitor or
\* the closing blank line of the section before it; a run without a fault
\* prints all six.
C5_SectionOrder ==
    /\ Len(Titles) <= Len(SectionOrder)
    /\ Titles = SubSeq(SectionOrder, 1, Len(Titles))
    /\ \A i \in 1..Len(out) :
           out[i].k = "title" =>
               /\ i >= 3 /\ i < Len(out)
               /\ out[i - 1].k = "banner"
               /\ out[i + 1].k = "banner"
               /\ out[i - 2].k = (IF out[i].title = SectionOrder[1]
                                  THEN "monitor" ELSE "blank")
    /\ (pc = "done" /\ e = NoExc) => Titles = SectionOrder

\* a complete report on a host with connections and processes
C5_Witness ==
    /\ pc = "done"
    /\ e = NoExc
    /\ Titles = SectionOrder
    /\ connection_data # <<>>
    /\ listening # <<>>
    /\ procs # <<>>

\* the places 1..Len(seq) of a list, in order
Places(seq) == [i \in 1..Len(seq) |-> i]

\* the owning process of connection c cannot be looked up: no such process
\* (a zombie is one), or access denied
LookupFails(c) ==
    /\ c.pid # 0
    /\ c.lookup # NoExc
    /\ IsInstance(c.lookup, "NoSuchProcess") \/ IsInstance(c.lookup, "AccessDenied")

\* the places in conns, in order, of the connections with this status whose
\* owning process can be looked up
Kept(conns, status) ==
    SelectSeq(Places(conns),
              LAMBDA i : conns[i].status = status /\ ~LookupFails(conns[i]))

Range(seq) == {seq[i] : i \in 1..Len(seq)}

\* C3: once the Active Connections pass is over, its list holds exactly the
\* ESTABLISHED connections whose process could be looked up, in order, and
\* its total line counts them; likewise the Listening Ports pass and the
\* LISTEN connections, all of which are printed; and main's handler sees an
\* exception only if an enumeration raised one.
C3_FailedLookupSkipsConnection ==
    /\ pc \in {"ports", "processes"} =>
           /\ [i \in 1..Len(connection_data) |-> connection_data[i].remote]
                  = Kept(connections, "ESTABLISHED")
           /\ LinesOf("total")[1].n = Len(Kept(connections, "ESTABLISHED"))
    /\ pc = "ports" => out[Len(out) - 1].k = "total"
    /\ pc = "processes" =>
           /\ [i \in 1..Len(listening) |-> listening[i].address]
                  = Kept(net_connections, "LISTEN")
           /\ Len(LinesOf("port")) = Len(Kept(net_connections, "LISTEN"))
           /\ {l.address : l \in Range(LinesOf("port"))}
                  = Range(Kept(net_connections, "LISTEN"))
           /\ LinesOf("total")[2].n = Len(Kept(net_connections, "LISTEN"))
           /\ out[Len(out) - 1].k = "total"
    /\ injected = NoExc => (e = NoExc /\ exit = "running")

\* both passes met a connection whose lookup failed and one they kept
C3_Witness ==
    /\ pc = "processes"
    /\ \E i, j \in 1..Len(connections) :
           /\ connections[i].status = "ESTABLISHED" /\ LookupFails(connections[i])
           /\ connections[i].lookup = "AccessDenied"
           /\ i < j /\ j \in Range(Kept(connections, "ESTABLISHED"))
    /\ \E i, j \in 1..Len(net_connections) :
           /\ net_connections[i].status = "LISTEN" /\ LookupFails(net_connections[i])
           /\ net_connections[i].lookup = "NoSuchProcess"
           /\ i < j /\ j \in Range(Kept(net_connections, "LISTEN"))
    /\ Len(connection_data) = 1
    /\ Len(listening) = 1

\* the name the Active Connections pass files connection i under
OwnerOf(i) == IF connections[i].pid = 0 THEN Unknown ELSE connections[i].pname

RECURSIVE SumOfMore(_)
SumOfMore(lines) ==
    IF lines = <<>> THEN 0 ELSE Head(lines).n + SumOfMore(Tail(lines))

\* C6: once the Active Connections pass is over, every process name with n
\* kept connections has one group: its header, then the first min(n, 5) of
\* its connections in order, then an "and N more" line exactly when n > 5,
\* with N = n - 5; the total line counts the kept connections, printed or
\* not; with none kept, the total is 0 and no group is printed.
C6_GroupsAndTotal ==
    pc = "ports" =>
        LET kept == Kept(connections, "ESTABLISHED")
            owners == {OwnerOf(i) : i \in Range(kept)}
        IN  /\ Len(LinesOf("group")) = Cardinality(owners)
            /\ \A g \in owners :
                   LET ids == SelectSeq(kept, LAMBDA i : OwnerOf(i) = g)
                       n == Len(ids)
                       m == IF n < 5 THEN n ELSE 5
                   IN  \E h \in 1..Len(out) :
                           /\ out[h].k = "group" /\ out[h].process = g
                           /\ \A j \in 1..m :
                                  /\ out[h + j].k = "conn"
                                  /\ out[h + j].remote = ids[j]
                           /\ IF n > 5
                              THEN /\ out[h + m + 1].k = "more"
                                   /\ out[h + m + 1].n = n - 5
                                   /\ out[h + m + 2].k \in {"group", "total"}
                              ELSE out[h + m + 1].k \in {"group", "total"}
            /\ Len(LinesOf("total")) = 1
            /\ LinesOf("total")[1].n = Len(kept)
            /\ LinesOf("total")[1].n
                   = Len(LinesOf("conn")) + SumOfMore(LinesOf("more"))
            /\ Titles[Len(Titles)] = "ACTIVE NETWORK CONNECTIONS"
            /\ kept = <<>> =>
                   /\ LinesOf("total")[1].n = 0
                   /\ LinesOf("group") = <<>> /\ LinesOf("conn") = <<>>
                   /\ LinesOf("more") = <<>>

\* one process with six kept connections, another with one
C6_Witness ==
    /\ pc = "ports"
    /\ Len(connection_data) = 7
    /\ Len(LinesOf("group")) = 2
    /\ Len(LinesOf("conn")) = 6
    /\ Len(LinesOf("more")) = 1
    /\ LinesOf("more")[1].n = 1

\* C10: once the Listening Ports pass is over, its lines are the LISTEN
\* connections whose process could be looked up, each once, in the order of
\* non-decreasing port, and the total line counts them.
C10_PortsSorted ==
    pc = "processes" =>
        LET kept == Kept(net_connections, "LISTEN")
            printed == LinesOf("port")
        IN  /\ Len(printed) = Len(kept)
            /\ {l.address : l \in Range(printed)} = Range(kept)
            /\ \A i \in 1..Len(printed) :
                   printed[i].port = net_connections[printed[i].address].lport
            /\ \A i, j \in 1..Len(printed) :
                   i < j => printed[i].port <= printed[j].port
            /\ LinesOf("total")[2].n = Len(kept)

\* ports 443, 8080, 22 enumerated in this order, and a failed lookup
C10_Witness ==
    /\ pc = "processes"
    /\ Len(net_connections) = 4
    /\ [i \in 1..Len(listening) |-> listening[i].port] = <<443, 8080, 22>>
    /\ [i \in 1..Len(LinesOf("port")) |-> LinesOf("port")[i].port] = <<22, 443, 8080>>

\* the processes the loop of the Process Analysis pass got to: those with a
\* readable name that no process with an unreadable name precedes
Reached == {i \in 1..Len(procs) : \A j \in 1..i : procs[j].name # None}

Pids(list) == [i \in 1..Len(list) |-> list[i].pid]

\* the lower-cased name has a keyword as a substring
NameMatches(name) ==
    \E kw \in Range(suspicious_keywords) : Contains(lower(name), kw)

\* C4: a process the loop got to whose I/O counters are denied or
\* unsupported is not in the high-network list and is in the suspicious
\* list exactly when its name matches a keyword; the processes after it are
\* classified as usual; and when every name is readable the pass completes.
C4_IoFailureSkipsUsageOnly ==
    /\ \A i \in Reached :
           procs[i].io \in {"AccessDenied", "AttributeError"} =>
               /\ i \notin Range(Pids(high_network_processes))
               /\ i \in Range(Pids(suspicious_processes))
                      <=> NameMatches(procs[i].name)
               /\ \A j \in Reached :
                      j > i =>
                          /\ j \in Range(Pids(suspicious_processes))
                                 <=> NameMatches(procs[j].name)
                          /\ procs[j].io = NoExc =>
                                 (j \in Range(Pids(high_network_processes))
                                      <=> (procs[j].read_bytes > 10000000
                                           \/ procs[j].write_bytes > 10000000))
    /\ (procs # <<>> /\ Reached = 1..Len(procs)) =>
           (pc = "recommendations" /\ e = NoExc)

\* a suspicious process with denied counters, then one with unsupported
\* counters, then a process of high usage
C4_Witness ==
    /\ pc = "recommendations"
    /\ Len(procs) = 3
    /\ procs[1].io = "AccessDenied" /\ procs[1].name = CryptoMiner
    /\ procs[2].io = "AttributeError" /\ procs[2].name = chrome
    /\ Pids(suspicious_processes) = <<1>>
    /\ Pids(high_network_processes) = <<3>>

\* C7: the suspicious list holds the processes the loop got to whose
\* lower-cased name has a keyword as a substring, each once, in the order of
\* the enumeration; these are the processes printed under the warning.
C7_SuspiciousOnceInOrder ==
    /\ Range(Pids(suspicious_processes)) = {i \in Reached : NameMatches(procs[i].name)}
    /\ \A a, b \in 1..Len(suspicious_processes) :
           a < b => suspicious_processes[a].pid < suspicious_processes[b].pid
    /\ \A a \in 1..Len(suspicious_processes) :
           suspicious_processes[a].name = procs[suspicious_processes[a].pid].name
    /\ pc = "recommendations" =>
           /\ Pids(LinesOf("suspicious")) = Pids(suspicious_processes)
           /\ (LinesOf("warning") # <<>>) <=> (suspicious_processes # <<>>)
           /\ (LinesOf("clear") # <<>>) <=> (suspicious_processes = <<>>)

\* CryptoMiner.exe (two keywords), an unsuspicious process, RAT (upper case)
C7_Witness ==
    /\ pc = "recommendations"
    /\ Len(procs) = 3
    /\ procs[1].name = CryptoMiner
    /\ procs[2].name = chrome
    /\ procs[3].name = RAT
    /\ Pids(LinesOf("suspicious")) = <<1, 3>>

\* C8: a process the loop got to whose I/O counters are readable is in the
\* high-network list exactly when it read more than 10,000,000 bytes or
\* wrote more than 10,000,000 bytes, and nothing else is in the list.
C8_StrictThreshold ==
    /\ \A i \in Reached :
           procs[i].io = NoExc =>
               (i \in Range(Pids(high_network_processes))
                    <=> (procs[i].read_bytes > 10000000
                         \/ procs[i].write_bytes > 10000000))
    /\ \A i \in Range(Pids(high_network_processes)) :
           i \in Reached /\ procs[i].io = NoExc

\* 10,000,000 read and 0 written is left out; 10,000,001 read is added
C8_Witness ==
    /\ pc = "recommendations"
    /\ Len(procs) = 2
    /\ procs[1].read_bytes = 10000000 /\ procs[1].write_bytes = 0
    /\ procs[1].io = NoExc
    /\ procs[2].read_bytes = 10000001 /\ procs[2].io = NoExc
    /\ Pids(high_network_processes) = <<2>>

\* the processes of high usage of a pass that completed
Qualifying ==
    {i \in 1..Len(procs) :
        /\ procs[i].io = NoExc
        /\ procs[i].read_bytes > 10000000 \/ procs[i].write_bytes > 10000000}

\* read + write of process i, in bytes
TotalBytes(i) == procs[i].read_bytes + procs[i].write_bytes

====
